---- MODULE Spec2Model ----
(***************************************************************************)
(* A model of BadVPN's BIPC channel (src/ipc/BIPC.c): a duplex packet      *)
(* channel over a unix stream socket.  BIPC.c constructs the channel       *)
(* (BIPC_InitConnect, BIPC_InitAccept), wires the two pipelines (init_io), *)
(* forwards every fault of the three reporting stages to one handler       *)
(* (error_handler) and tears the channel down (free_io, BIPC_Free).        *)
(*                                                                         *)
(* The pipeline stages themselves (PacketCopier, PacketProtoEncoder,       *)
(* SinglePacketBuffer, PacketStreamSender, StreamSocketSink,               *)
(* StreamSocketSource, PacketProtoDecoder), the macros ASSERT, DEAD_* and  *)
(* DebugObject_* and the packetproto constants are code of the repository  *)
(* outside src/ipc/BIPC.c; they are modelled from the design document.     *)
(*                                                                         *)
(* Five specifications over the same variables:                            *)
(*   Spec      one channel o through its whole life: construction on both  *)
(*             paths with every failing step, pushes, pulls, transport     *)
(*             events, faults of the three stages, the handler destroying  *)
(*             the channel or not, BIPC_Free, with the remote end as an    *)
(*             environment that writes raw frames;                         *)
(*   SpecLife  construction with every argument from one below the range   *)
(*             to one above it, the interface getters in every phase,      *)
(*             destruction by the caller or by the handler; no traffic;    *)
(*   SpecPair  one direction of a connected, fault-free pair: the send     *)
(*             pipeline of the pushing end, the socket, and the receive    *)
(*             pipeline of its peer, both built by init_io;                *)
(*   SpecPairLive  the pair under a fair event loop, for progress;         *)
(*   SpecIo    the pair with every outcome of a read or a write on the     *)
(*             socket: bytes moved, would-block, end of stream, error.     *)
(***************************************************************************)
EXTENDS Integers, Sequences, FiniteSets, TLC

(***************************************************************************)
(* Bounds of the model.                                                    *)
(***************************************************************************)
\* packets the caller pushes in one run of SpecPair
MaxPackets == 2
\* packets pushed plus raw frames written by the remote end in one run of Spec
MaxTraffic == 2
\* longest payload of a well-formed frame the remote end writes in Spec
MaxInjectLen == 1
\* bytes the socket holds before a write would block
WireCap == 3

\* reads and writes that move no byte in one run of SpecIo
MaxIo == 2

\* packets the caller pushes in one run of SpecPairLive
MaxLivePackets == 2

\* packets the caller pushes in one run of SpecIo
MaxIoPackets == 1

(***************************************************************************)
(* Program constants.  PACKETPROTO_MAXPAYLOAD is UINT16_MAX in the         *)
(* program and the header is two bytes of eight bits; the model keeps the  *)
(* two-digit header and scales the digit base and the ceiling down so that *)
(* the header still represents one length above the ceiling.               *)
(***************************************************************************)
COMPONENT_SOURCE == 1
COMPONENT_SINK == 2
COMPONENT_DECODER == 3
PACKETPROTO_MAXPAYLOAD == 2
HeaderSize == 2
ByteBase == 2

Byte == 0 .. (ByteBase - 1)
HeaderLimit == ByteBase ^ HeaderSize

PACKETPROTO_ENCLEN(mtu) == HeaderSize + mtu

(***************************************************************************)
(* Wire protocol: a frame is the length, little-endian in HeaderSize       *)
(* digits, followed by the payload.  The length field keeps its width.     *)
(***************************************************************************)
EncodeLen(n) == [i \in 1 .. HeaderSize |-> ((n % HeaderLimit) \div (ByteBase ^ (i - 1))) % ByteBase]

RECURSIVE DecodeLenFrom(_, _)
DecodeLenFrom(h, i) == IF i > HeaderSize THEN 0 ELSE h[i] * (ByteBase ^ (i - 1)) + DecodeLenFrom(h, i + 1)

DecodeLen(h) == DecodeLenFrom(h, 1)

Encode(p) == EncodeLen(Len(p)) \o p

PacketsUpTo(n) == UNION {[1 .. k -> Byte] : k \in 0 .. n}

Zeros(n) == [i \in 1 .. n |-> 0]

RECURSIVE EncodeAll(_)
EncodeAll(ps) == IF ps = <<>> THEN <<>> ELSE Encode(Head(ps)) \o EncodeAll(Tail(ps))

IsPrefix(s, t) == Len(s) <= Len(t) /\ SubSeq(t, 1, Len(s)) = s

Drop(s, k) == SubSeq(s, k + 1, Len(s))

Take(s, k) == SubSeq(s, 1, k)

VARIABLES
    build,        \* "debug": assertions compiled in; "ndebug": NDEBUG defined
    o,            \* the BIPC object
    initLog,      \* components in the order they were initialised
    freeLog,      \* components in the order they were freed
    handlerLog,   \* the invocations of o->handler: the reporting tag, what the handler did
    postAccess,   \* channel fields touched after the handler destroyed the channel
    getLog,       \* the interface getter calls: phase at the call and outcome
    pushed,       \* packets the send interface accepted, in order
    rejected,     \* a push was refused as a precondition violation
    oversize,     \* an over-long packet was taken by the send copier
    sendPending,  \* the caller's packet the send copier holds, or <<>> when none
    pushDone,     \* push completions signalled to the caller
    bridge,       \* SinglePacketBuffer: state, frame, bytes handed to the sink
    txWire,       \* bytes the sink wrote, still in the socket
    txAll,        \* every byte the sink ever wrote
    rxWire,       \* bytes in the socket for the source to read
    rxAll,        \* every byte the source ever read
    injected,     \* raw frames the remote end wrote
    recvBuf,      \* PacketProtoDecoder: bytes of the frame being assembled
    recvWant,     \* the caller has a pull outstanding on the receive interface
    delivered,    \* packets delivered at the receive interface, in order
    stage,        \* per reporting stage: "ok" or "failed"
    ioLog         \* results of reads and writes on the socket that moved no byte

chanVars == <<build, o, initLog, freeLog, handlerLog, postAccess, getLog>>
sendVars == <<pushed, rejected, oversize, sendPending, pushDone, bridge, txWire, txAll>>
recvVars == <<rxWire, rxAll, injected, recvBuf, recvWant, delivered>>
vars == <<chanVars, sendVars, recvVars, stage, ioLog>>

(***************************************************************************)
(* The channel object.  A field that was never written holds "uninit".     *)
(***************************************************************************)
Components == {"send_sink", "send_pss", "send_copier", "send_encoder", "send_buf", "recv_source", "recv_copier", "recv_decoder"}

Tags == {COMPONENT_SOURCE, COMPONENT_SINK, COMPONENT_DECODER}

StageOf(tag) == IF tag = COMPONENT_SOURCE THEN "recv_source" ELSE IF tag = COMPONENT_SINK THEN "send_sink" ELSE "recv_decoder"

NoCfg == [sink_tag |-> "unset", pss_mtu |-> "unset", send_copier_mtu |-> "unset", encoder_input |-> "unset", bridge_input |-> "unset", bridge_output |-> "unset", source_tag |-> "unset", recv_copier_mtu |-> "unset", decoder_tag |-> "unset", decoder_input |-> "unset", decoder_output |-> "unset"]

\* what DEAD_KILL did in BIPC_Free: whether it set a flag, and what had
\* been released when it ran
NoKill == [ran |-> FALSE, flag |-> FALSE, after |-> <<>>]

Fresh == [phase |-> "none", path |-> "none", send_mtu |-> 0, recv_mtu |-> 0, handler |-> "uninit", dead |-> "uninit", d_obj |-> "uninit", sock |-> "uninit", comp |-> [c \in Components |-> "uninit"], cfg |-> NoCfg, kill |-> NoKill]

AssertsOn == build = "debug"

\* An initialisation or a release of one component; releasing what is not
\* live, or initialising what is, leaves the component "bad".
I(c) == <<"init", c>>

F(c) == <<"free", c>>

ApplyStep(comp, st) == IF st[1] = "init" THEN [comp EXCEPT ![st[2]] = IF @ = "live" THEN "bad" ELSE "live"] ELSE [comp EXCEPT ![st[2]] = IF @ = "live" THEN "freed" ELSE "bad"]

RECURSIVE RunSteps(_, _)
RunSteps(comp, steps) == IF steps = <<>> THEN comp ELSE RunSteps(ApplyStep(comp, Head(steps)), Tail(steps))

Inits(steps) == SelectSeq(steps, LAMBDA st : st[1] = "init")

Frees(steps) == SelectSeq(steps, LAMBDA st : st[1] = "free")

Names(steps) == [i \in 1 .. Len(steps) |-> steps[i][2]]

(***************************************************************************)
(* init_io: the pipeline wiring and the two failure paths.                 *)
(***************************************************************************)
\* init_io with the bridge's input taken from the copier, not the encoder
InitIoConfig_NoEncoder(send_mtu, recv_mtu) == [sink_tag |-> COMPONENT_SINK, pss_mtu |-> PACKETPROTO_ENCLEN(send_mtu), send_copier_mtu |-> send_mtu, encoder_input |-> "send_copier", bridge_input |-> "send_copier", bridge_output |-> "send_pss", source_tag |-> COMPONENT_SOURCE, recv_copier_mtu |-> recv_mtu, decoder_tag |-> COMPONENT_DECODER, decoder_input |-> "recv_source", decoder_output |-> "recv_copier"]

\* init_io with the decoder's output given the send copier's input
InitIoConfig_DecoderToSendCopier(send_mtu, recv_mtu) == [sink_tag |-> COMPONENT_SINK, pss_mtu |-> PACKETPROTO_ENCLEN(send_mtu), send_copier_mtu |-> send_mtu, encoder_input |-> "send_copier", bridge_input |-> "send_encoder", bridge_output |-> "send_pss", source_tag |-> COMPONENT_SOURCE, recv_copier_mtu |-> recv_mtu, decoder_tag |-> COMPONENT_DECODER, decoder_input |-> "recv_source", decoder_output |-> "send_copier"]

\* init_io with the send copier given the encoded length as its MTU
InitIoConfig_CopierEnclen(send_mtu, recv_mtu) == [sink_tag |-> COMPONENT_SINK, pss_mtu |-> PACKETPROTO_ENCLEN(send_mtu), send_copier_mtu |-> PACKETPROTO_ENCLEN(send_mtu), encoder_input |-> "send_copier", bridge_input |-> "send_encoder", bridge_output |-> "send_pss", source_tag |-> COMPONENT_SOURCE, recv_copier_mtu |-> recv_mtu, decoder_tag |-> COMPONENT_DECODER, decoder_input |-> "recv_source", decoder_output |-> "recv_copier"]

\* init_io with the decoder given no output
InitIoConfig_DecoderNoOutput(send_mtu, recv_mtu) == [sink_tag |-> COMPONENT_SINK, pss_mtu |-> PACKETPROTO_ENCLEN(send_mtu), send_copier_mtu |-> send_mtu, encoder_input |-> "send_copier", bridge_input |-> "send_encoder", bridge_output |-> "send_pss", source_tag |-> COMPONENT_SOURCE, recv_copier_mtu |-> recv_mtu, decoder_tag |-> COMPONENT_DECODER, decoder_input |-> "recv_source", decoder_output |-> "unset"]

\* init_io with the stream sender sized for the payload, not for the frame
InitIoConfig_PssPayloadOnly(send_mtu, recv_mtu) == [sink_tag |-> COMPONENT_SINK, pss_mtu |-> send_mtu, send_copier_mtu |-> send_mtu, encoder_input |-> "send_copier", bridge_input |-> "send_encoder", bridge_output |-> "send_pss", source_tag |-> COMPONENT_SOURCE, recv_copier_mtu |-> recv_mtu, decoder_tag |-> COMPONENT_DECODER, decoder_input |-> "recv_source", decoder_output |-> "recv_copier"]

InitIoConfig(send_mtu, recv_mtu) == [sink_tag |-> COMPONENT_SINK, pss_mtu |-> PACKETPROTO_ENCLEN(send_mtu), send_copier_mtu |-> send_mtu, encoder_input |-> "send_copier", bridge_input |-> "send_encoder", bridge_output |-> "send_pss", source_tag |-> COMPONENT_SOURCE, recv_copier_mtu |-> recv_mtu, decoder_tag |-> COMPONENT_DECODER, decoder_input |-> "recv_source", decoder_output |-> "recv_copier"]

\* fail1 releasing the send buffer as well
InitIoFail1_WithBuf == <<F("send_buf"), F("send_encoder"), F("send_copier"), F("send_pss"), F("send_sink")>>

InitIoFail1 == <<F("send_encoder"), F("send_copier"), F("send_pss"), F("send_sink")>>

\* fail2 with the release of the send buffer forgotten
InitIoFail2_NoBuf == <<F("recv_copier"), F("recv_source")>>

InitIoFail2 == <<F("recv_copier"), F("recv_source"), F("send_buf")>>

\* fail: "none", "send_buf" (SinglePacketBuffer_Init returns 0) or
\* "recv_decoder" (PacketProtoDecoder_Init returns 0)
init_io(fail) ==
    <<I("send_sink"), I("send_pss"), I("send_copier"), I("send_encoder")>>
    \o (IF fail = "send_buf" THEN InitIoFail1
        ELSE <<I("send_buf"), I("recv_source"), I("recv_copier")>>
             \o (IF fail = "recv_decoder" THEN InitIoFail2 \o InitIoFail1 ELSE <<I("recv_decoder")>>))

\* free_io with the send pipeline released before the receive pipeline
free_io_SendFirst == <<F("send_buf"), F("send_encoder"), F("send_copier"), F("send_pss"), F("send_sink"), F("recv_decoder"), F("recv_copier"), F("recv_source")>>

\* free_io that leaves the stream source registered
free_io_LeakSource == <<F("recv_decoder"), F("recv_copier"), F("send_buf"), F("send_encoder"), F("send_copier"), F("send_pss"), F("send_sink")>>

free_io == <<F("recv_decoder"), F("recv_copier"), F("recv_source"), F("send_buf"), F("send_encoder"), F("send_copier"), F("send_pss"), F("send_sink")>>

(***************************************************************************)
(* Construction.  Each operator gives the object after the call and the    *)
(* component steps the call performed.  `fail` names the failing step.     *)
(***************************************************************************)
ConnectFails == {"none", "sock_init", "connect", "send_buf", "recv_decoder"}

AcceptFails == {"none", "accept", "send_buf", "recv_decoder"}

ConnectArgsOk(send_mtu, recv_mtu) == send_mtu >= 0 /\ send_mtu <= PACKETPROTO_MAXPAYLOAD /\ recv_mtu >= 0 /\ recv_mtu <= PACKETPROTO_MAXPAYLOAD

AcceptArgsOk(send_mtu, recv_mtu) == send_mtu >= 0 /\ recv_mtu >= 0

\* the part both construction calls share once the socket is connected:
\* init_io, then DebugObject_Init on success or BSocket_Free (fail1) on failure
InitOnSocket(c, fail) ==
    LET steps == init_io(fail)
        comp == RunSteps(c.comp, steps)
    IN  IF fail = "none"
        THEN [o |-> [c EXCEPT !.phase = "established", !.sock = "live", !.comp = comp, !.cfg = InitIoConfig(c.send_mtu, c.recv_mtu), !.d_obj = "valid"], steps |-> <<I("sock")>> \o steps]
        ELSE [o |-> [c EXCEPT !.phase = "failed", !.sock = "freed", !.comp = comp], steps |-> <<I("sock")>> \o steps \o <<F("sock")>>]

Construct(path, argsOk, early, send_mtu, recv_mtu, fail) ==
    LET c == [Fresh EXCEPT !.path = path, !.send_mtu = send_mtu, !.recv_mtu = recv_mtu]
        args == [c EXCEPT !.handler = "set", !.dead = "NULL"]
    IN  IF AssertsOn /\ ~argsOk THEN [o |-> [c EXCEPT !.phase = "aborted"], steps |-> <<>>]
        ELSE IF fail \in early THEN [o |-> [args EXCEPT !.phase = "failed"], steps |-> <<>>]
        ELSE IF fail = "connect" THEN [o |-> [args EXCEPT !.phase = "failed", !.sock = "freed"], steps |-> <<I("sock"), F("sock")>>]
        ELSE InitOnSocket(args, fail)

BIPC_InitConnect_(send_mtu, recv_mtu, fail) == Construct("connect", ConnectArgsOk(send_mtu, recv_mtu), {"sock_init"}, send_mtu, recv_mtu, fail)

BIPC_InitAccept_(send_mtu, recv_mtu, fail) == Construct("accept", AcceptArgsOk(send_mtu, recv_mtu), {"accept"}, send_mtu, recv_mtu, fail)

(***************************************************************************)
(* DebugObject and the dead variable.                                      *)
(***************************************************************************)
\* DebugObject_Access / DebugObject_Free check the object's magic value; the
\* check exists only with assertions compiled in.  An object that was never
\* initialised holds an indeterminate value: `magic` says whether it happens
\* to pass.
DebugObject_Ok(d_obj, magic) == \/ ~AssertsOn
                                \/ d_obj = "valid"
                                \/ d_obj = "uninit" /\ magic

\* DEAD_KILL(ptr): sets the flag the pointer leads to, when there is one
DEAD_KILL(dead) == dead = "frame"

\* DEAD_LEAVE(ptr): restores the pointer unless the object was killed
DEAD_LEAVE_writes(killed) == ~killed

(***************************************************************************)
(* BIPC_Free: DebugObject_Free, free_io, BSocket_Free, DEAD_KILL.          *)
(***************************************************************************)
K(v) == <<"kill", v>>

\* BIPC_Free with DEAD_KILL moved to the head of the destruction
DestroySteps_KillFirst == <<K("dead")>> \o free_io \o <<F("sock")>>

\* the body of BIPC_Free after DebugObject_Free: free_io, BSocket_Free,
\* DEAD_KILL(o->dead)
DestroySteps == free_io \o <<F("sock"), K("dead")>>

KillAt(steps) == CHOOSE i \in 1 .. Len(steps) : steps[i][1] = "kill"

KillRecord(steps, dead) == [ran |-> TRUE, flag |-> DEAD_KILL(dead), after |-> Names(Frees(SubSeq(steps, 1, KillAt(steps) - 1)))]

\* BIPC_Free without DebugObject_Free's invalidation of the object
BIPC_Free_KeepsDebugObject(c, magic) ==
    IF ~DebugObject_Ok(c.d_obj, magic) THEN [o |-> [c EXCEPT !.phase = "aborted"], steps |-> <<>>, killed |-> FALSE]
    ELSE LET steps == DestroySteps
             comp == RunSteps(c.comp, free_io)
             sock == IF c.sock = "live" THEN "freed" ELSE "bad"
             good == sock = "freed" /\ \A x \in Components : comp[x] # "bad"
         IN  [o |-> [c EXCEPT !.phase = IF good THEN "freed" ELSE "ub", !.comp = comp, !.sock = sock, !.kill = KillRecord(steps, c.dead)], steps |-> steps, killed |-> DEAD_KILL(c.dead)]

BIPC_Free_(c, magic) ==
    IF ~DebugObject_Ok(c.d_obj, magic) THEN [o |-> [c EXCEPT !.phase = "aborted"], steps |-> <<>>, killed |-> FALSE]
    ELSE LET steps == DestroySteps
             comp == RunSteps(c.comp, free_io)
             sock == IF c.sock = "live" THEN "freed" ELSE "bad"
             good == sock = "freed" /\ \A x \in Components : comp[x] # "bad"
         IN  [o |-> [c EXCEPT !.phase = IF good THEN "freed" ELSE "ub", !.d_obj = IF AssertsOn THEN "freed" ELSE @, !.comp = comp, !.sock = sock, !.kill = KillRecord(steps, c.dead)], steps |-> steps, killed |-> DEAD_KILL(c.dead)]

(***************************************************************************)
(* error_handler: the one handler of the error domain.  h is what the      *)
(* user's handler does: "free" (it calls BIPC_Free on the channel) or      *)
(* "return" (it returns without destroying the channel).                   *)
(***************************************************************************)
HandlerChoices == {"free", "return"}

\* the assertion admitting the source's tag only
ValidComponent_SourceOnly(component) == component = COMPONENT_SOURCE

\* the assertion with the decoder's tag forgotten
ValidComponent_NoDecoder(component) == component = COMPONENT_SOURCE \/ component = COMPONENT_SINK

\* ASSERT(component == COMPONENT_SOURCE || ... ) at the head of error_handler
ValidComponent(component) == component = COMPONENT_SOURCE \/ component = COMPONENT_SINK \/ component = COMPONENT_DECODER

\* error_handler without ASSERT(DEAD_KILLED)
ErrorHandlerTail_NoAssert(killed) ==
    [abort |-> FALSE, touched |-> IF AssertsOn /\ DEAD_LEAVE_writes(killed) THEN {"dead"} ELSE {}]

\* the object's debug check done after the handler instead of before it
ErrorHandlerTail_AccessAfter(killed) ==
    IF ~AssertsOn THEN [abort |-> FALSE, touched |-> {}]
    ELSE IF ~killed THEN [abort |-> TRUE, touched |-> {"d_obj"}]
    ELSE [abort |-> FALSE, touched |-> {"d_obj"} \cup (IF DEAD_LEAVE_writes(killed) THEN {"dead"} ELSE {})]

\* what follows o->handler(o->user): with assertions, ASSERT(DEAD_KILLED) and
\* DEAD_LEAVE(o->dead); nothing otherwise
ErrorHandlerTail(killed) ==
    IF ~AssertsOn THEN [abort |-> FALSE, touched |-> {}]
    ELSE IF ~killed THEN [abort |-> TRUE, touched |-> {}]
    ELSE [abort |-> FALSE, touched |-> IF DEAD_LEAVE_writes(killed) THEN {"dead"} ELSE {}]

error_handler(c, component, h) ==
    IF AssertsOn /\ (~ValidComponent(component) \/ ~DebugObject_Ok(c.d_obj, FALSE))
    THEN [o |-> [c EXCEPT !.phase = "aborted"], called |-> <<>>, steps |-> <<>>, touched |-> {}]
    ELSE LET entered == IF AssertsOn THEN [c EXCEPT !.dead = "frame"] ELSE c
             fr == BIPC_Free_(entered, FALSE)
             after == IF h = "free" THEN fr.o ELSE entered
             killed == h = "free" /\ fr.killed
             tail == ErrorHandlerTail(killed)
             left == IF AssertsOn /\ ~tail.abort /\ DEAD_LEAVE_writes(killed) THEN [after EXCEPT !.dead = c.dead] ELSE after
         IN  [o |-> IF tail.abort THEN [left EXCEPT !.phase = "aborted"] ELSE left,
              called |-> <<[tag |-> component, did |-> h]>>,
              steps |-> IF h = "free" THEN fr.steps ELSE <<>>,
              touched |-> IF h = "free" THEN tail.touched ELSE {}]

(***************************************************************************)
(* The initial state: memory for the object, nothing constructed.          *)
(***************************************************************************)
\* no getter was called yet
NoCall == [fn |-> "none", phase |-> "none", copier |-> "none", result |-> "none"]

IdleBridge == [state |-> "idle", frame |-> <<>>, off |-> 0]

DataInit ==
    /\ pushed = <<>> /\ rejected = FALSE /\ oversize = FALSE /\ sendPending = <<>> /\ pushDone = 0
    /\ txWire = <<>> /\ txAll = <<>> /\ rxWire = <<>> /\ rxAll = <<>> /\ injected = <<>>
    /\ recvBuf = <<>> /\ recvWant = FALSE /\ delivered = <<>>
    /\ stage = [t \in Tags |-> "ok"]
    /\ ioLog = <<>>
    /\ handlerLog = <<>> /\ postAccess = {} /\ getLog = NoCall

Init ==
    /\ build \in {"debug", "ndebug"}
    /\ o = Fresh
    /\ initLog = <<>> /\ freeLog = <<>>
    /\ bridge = IdleBridge
    /\ DataInit

Established == o.phase = "established"

\* a component that was initialised and not freed runs for as long as the
\* process does
Live(c) == o.comp[c] = "live" /\ o.phase \notin {"aborted", "ub"}

(***************************************************************************)
(* Construction and destruction as the caller's calls.                     *)
(***************************************************************************)
\* the MTU arguments tried in SpecLife: every value from one below the
\* range to one above it; Spec constructs with in-range values
ArgValues == (0 - 1) .. (PACKETPROTO_MAXPAYLOAD + 1)

SpecMtus == {0, 1}

\* SinglePacketBuffer_Init starts the first pull from the encoder
Constructed(res) ==
    /\ o' = res.o
    /\ initLog' = initLog \o Names(Inits(res.steps))
    /\ freeLog' = freeLog \o Names(Frees(res.steps))
    /\ bridge' = IF res.o.phase = "established" THEN [IdleBridge EXCEPT !.state = "pulling"] ELSE bridge
    /\ UNCHANGED <<build, handlerLog, postAccess, getLog, pushed, rejected, oversize, sendPending, pushDone, txWire, txAll, recvVars, stage, ioLog>>

BIPC_InitConnect(mtus) ==
    /\ o.phase = "none"
    /\ \E send_mtu \in mtus, recv_mtu \in mtus, fail \in ConnectFails : Constructed(BIPC_InitConnect_(send_mtu, recv_mtu, fail))

BIPC_InitAccept(mtus) ==
    /\ o.phase = "none"
    /\ \E send_mtu \in mtus, recv_mtu \in mtus, fail \in AcceptFails : Constructed(BIPC_InitAccept_(send_mtu, recv_mtu, fail))

\* the caller destroys the channel; a second call is the caller's error
BIPC_Free ==
    /\ o.phase \in {"established", "freed"}
    /\ LET res == BIPC_Free_(o, FALSE)
       IN  /\ o' = res.o
           /\ freeLog' = freeLog \o Names(Frees(res.steps))
    /\ UNCHANGED <<build, initLog, handlerLog, postAccess, getLog, sendVars, recvVars, stage, ioLog>>

\* BIPC_GetSendInterface / BIPC_GetRecvInterface, callable in any phase:
\* DebugObject_Access, then the address of the copier's interface
GetInterface(fn, copier) ==
    /\ o.phase \in {"none", "failed", "established", "freed"}
    /\ \E magic \in BOOLEAN :
          IF DebugObject_Ok(o.d_obj, magic)
          THEN /\ getLog' = [fn |-> fn, phase |-> o.phase, copier |-> o.comp[copier], result |-> "returned"]
               /\ o' = o
          ELSE /\ getLog' = [fn |-> fn, phase |-> o.phase, copier |-> o.comp[copier], result |-> "abort"]
               /\ o' = [o EXCEPT !.phase = "aborted"]
    /\ UNCHANGED <<build, initLog, freeLog, handlerLog, postAccess, sendVars, recvVars, stage, ioLog>>

BIPC_GetSendInterface == GetInterface("send", "send_copier")

BIPC_GetRecvInterface == GetInterface("recv", "recv_copier")

(***************************************************************************)
(* A stage reports a fault through its FlowErrorReporter: the stage stops, *)
(* the domain calls error_handler with the stage's tag.                    *)
(***************************************************************************)
Report(component, h) ==
    LET res == error_handler(o, component, h)
    IN  /\ o' = res.o
        /\ handlerLog' = handlerLog \o res.called
        /\ freeLog' = freeLog \o Names(Frees(res.steps))
        /\ postAccess' = postAccess \cup res.touched
        /\ stage' = [stage EXCEPT ![component] = "failed"]
        /\ UNCHANGED <<build, initLog, getLog>>

NoReport == UNCHANGED <<chanVars, stage>>

(***************************************************************************)
(* The send pipeline: PacketCopier -> PacketProtoEncoder ->                *)
(* SinglePacketBuffer -> PacketStreamSender -> StreamSocketSink.           *)
(***************************************************************************)
\* the frame the bridge receives for packet p from the stage init_io wired
\* to its input
FrameOf(p) == IF o.cfg.bridge_input = "send_encoder" THEN Encode(p) ELSE p

\* outcomes of taking an over-long packet where no assertion stops it
UbOutcomes == {"taken", "crash"}

Push(p, u) ==
    /\ Live("send_copier")
    /\ sendPending = <<>>
    /\ ~oversize
    /\ IF Len(p) <= o.cfg.send_copier_mtu
       THEN /\ pushed' = Append(pushed, p)
            /\ IF bridge.state = "pulling"
               THEN /\ bridge' = [state |-> "sending", frame |-> FrameOf(p), off |-> 0]
                    /\ pushDone' = pushDone + 1
                    /\ sendPending' = sendPending
               ELSE /\ sendPending' = <<p>>
                    /\ UNCHANGED <<bridge, pushDone>>
            /\ UNCHANGED <<rejected, oversize, chanVars>>
       ELSE IF AssertsOn
       THEN /\ rejected' = TRUE
            /\ o' = [o EXCEPT !.phase = "aborted"]
            /\ UNCHANGED <<build, initLog, freeLog, handlerLog, postAccess, getLog, pushed, oversize, sendPending, pushDone, bridge>>
       ELSE /\ oversize' = TRUE
            /\ o' = IF u = "crash" THEN [o EXCEPT !.phase = "ub"] ELSE o
            /\ IF u = "taken" /\ bridge.state = "pulling"
               THEN /\ bridge' = [state |-> "sending", frame |-> FrameOf(p), off |-> 0]
                    /\ pushDone' = pushDone + 1
                    /\ sendPending' = sendPending
               ELSE /\ sendPending' = IF u = "taken" THEN <<p>> ELSE sendPending
                    /\ UNCHANGED <<bridge, pushDone>>
            /\ UNCHANGED <<build, initLog, freeLog, handlerLog, postAccess, getLog, pushed, rejected>>
    /\ UNCHANGED <<txWire, txAll, recvVars, stage, ioLog>>

\* the bridge pulling the next frame inside the completion of the last one
SinkWrite_PullInCallback(k) ==
    /\ Live("send_sink") /\ stage[COMPONENT_SINK] = "ok"
    /\ bridge.state = "sending"
    /\ k >= 1 /\ k <= Len(bridge.frame) - bridge.off /\ k <= WireCap - Len(txWire)
    /\ LET chunk == SubSeq(bridge.frame, bridge.off + 1, bridge.off + k)
       IN  /\ txWire' = txWire \o chunk
           /\ txAll' = txAll \o chunk
    /\ IF bridge.off + k < Len(bridge.frame)
       THEN bridge' = [bridge EXCEPT !.off = @ + k] /\ UNCHANGED <<sendPending, pushDone>>
       ELSE IF sendPending # <<>>
       THEN /\ bridge' = [state |-> "sending", frame |-> FrameOf(sendPending[1]), off |-> 0]
            /\ sendPending' = <<>>
            /\ pushDone' = pushDone + 1
       ELSE bridge' = [state |-> "pulling", frame |-> <<>>, off |-> 0] /\ UNCHANGED <<sendPending, pushDone>>
    /\ UNCHANGED <<pushed, rejected, oversize, chanVars, recvVars, stage, ioLog>>

\* the socket is writable: the sink writes k bytes of the frame; when the
\* frame is flushed the bridge schedules its next pull as a pending job
SinkWrite(k) ==
    /\ Live("send_sink") /\ stage[COMPONENT_SINK] = "ok"
    /\ bridge.state = "sending"
    /\ k >= 1 /\ k <= Len(bridge.frame) - bridge.off /\ k <= WireCap - Len(txWire)
    /\ LET chunk == SubSeq(bridge.frame, bridge.off + 1, bridge.off + k)
       IN  /\ txWire' = txWire \o chunk
           /\ txAll' = txAll \o chunk
    /\ bridge' = IF bridge.off + k = Len(bridge.frame) THEN [state |-> "job", frame |-> <<>>, off |-> 0] ELSE [bridge EXCEPT !.off = @ + k]
    /\ UNCHANGED <<pushed, rejected, oversize, sendPending, pushDone, chanVars, recvVars, stage, ioLog>>

\* the pending job of the bridge: pull the next frame from the encoder
BridgeJob ==
    /\ Live("send_buf")
    /\ bridge.state = "job"
    /\ IF sendPending # <<>>
       THEN /\ bridge' = [state |-> "sending", frame |-> FrameOf(sendPending[1]), off |-> 0]
            /\ sendPending' = <<>>
            /\ pushDone' = pushDone + 1
       ELSE /\ bridge' = [bridge EXCEPT !.state = "pulling"]
            /\ UNCHANGED <<sendPending, pushDone>>
    /\ UNCHANGED <<pushed, rejected, oversize, txWire, txAll, chanVars, recvVars, stage, ioLog>>

\* an unrecoverable error of a write on the socket
SinkFault(h) ==
    /\ Live("send_sink") /\ stage[COMPONENT_SINK] = "ok"
    /\ bridge.state = "sending"
    /\ Report(o.cfg.sink_tag, h)
    /\ UNCHANGED <<sendVars, recvVars, ioLog>>

(***************************************************************************)
(* The receive pipeline: StreamSocketSource -> PacketProtoDecoder ->       *)
(* PacketCopier.                                                           *)
(***************************************************************************)
DecoderBufSize == PACKETPROTO_ENCLEN(PACKETPROTO_MAXPAYLOAD)

\* what the bytes at the head of the decoder's buffer are
HeadState(buf) ==
    IF Len(buf) < HeaderSize THEN "need"
    ELSE LET n == DecodeLen(Take(buf, HeaderSize))
         IN  IF n > PACKETPROTO_MAXPAYLOAD THEN "invalid"
             ELSE IF Len(buf) < HeaderSize + n THEN "need"
             ELSE "packet"

HeadLen(buf) == DecodeLen(Take(buf, HeaderSize))

\* the decoder runs on its buffer: it hands one complete frame's packet to
\* the copier when the caller has a pull outstanding, and fails on a length
\* above the ceiling
DecodeRun(buf, want) ==
    IF HeadState(buf) = "invalid" THEN [buf |-> buf, out |-> <<>>, want |-> want, invalid |-> TRUE]
    ELSE IF HeadState(buf) = "packet" /\ want
    THEN LET n == HeadLen(buf)
             rest == Drop(buf, HeaderSize + n)
         IN  [buf |-> rest, out |-> <<SubSeq(buf, HeaderSize + 1, HeaderSize + n)>>, want |-> FALSE, invalid |-> HeadState(rest) = "invalid"]
    ELSE [buf |-> buf, out |-> <<>>, want |-> want, invalid |-> FALSE]

Decoded(d, h) ==
    /\ recvBuf' = d.buf
    /\ recvWant' = d.want
    /\ delivered' = IF o.cfg.decoder_output = "recv_copier" THEN delivered \o d.out ELSE delivered
    /\ IF d.invalid THEN Report(o.cfg.decoder_tag, h) ELSE NoReport

\* the socket is readable: the source reads k bytes into the decoder
SourceRead(k, h) ==
    /\ Live("recv_source") /\ Live("recv_decoder")
    /\ stage[COMPONENT_SOURCE] = "ok" /\ stage[COMPONENT_DECODER] = "ok"
    /\ k >= 1 /\ k <= Len(rxWire) /\ k <= DecoderBufSize - Len(recvBuf)
    /\ rxWire' = Drop(rxWire, k)
    /\ rxAll' = rxAll \o Take(rxWire, k)
    /\ Decoded(DecodeRun(recvBuf \o Take(rxWire, k), recvWant), h)
    /\ UNCHANGED <<injected, sendVars, ioLog>>

\* the caller asks the receive interface for the next packet
Pull(h) ==
    /\ Live("recv_copier") /\ Live("recv_decoder")
    /\ ~recvWant
    /\ IF stage[COMPONENT_DECODER] = "ok"
       THEN Decoded(DecodeRun(recvBuf, TRUE), h)
       ELSE recvWant' = TRUE /\ UNCHANGED <<recvBuf, delivered>> /\ NoReport
    /\ UNCHANGED <<rxWire, rxAll, injected, sendVars, ioLog>>

\* end of stream or an unrecoverable error of a read on the socket
SourceFault(h) ==
    /\ Live("recv_source") /\ stage[COMPONENT_SOURCE] = "ok"
    /\ Report(o.cfg.source_tag, h)
    /\ UNCHANGED <<sendVars, recvVars, ioLog>>

(***************************************************************************)
(* Reads and writes on the non-blocking socket that move no byte.          *)
(***************************************************************************)
IoResults == {"wouldblock", "eof", "error"}

\* end of stream taken for a would-block
IoFault_EofWaits(res) == res = "error"

\* the sink and the source report every such result but a would-block
IoFault(res) == res \in {"eof", "error"}

\* a write returned without writing: the socket is full, or the write failed
SinkResult(res, h) ==
    /\ Live("send_sink") /\ stage[COMPONENT_SINK] = "ok"
    /\ bridge.state = "sending"
    /\ res \in {"wouldblock", "error"}
    /\ res = "wouldblock" => Len(txWire) = WireCap
    /\ Len(ioLog) < MaxIo
    /\ ioLog' = Append(ioLog, [tag |-> COMPONENT_SINK, res |-> res])
    /\ IF IoFault(res) THEN Report(o.cfg.sink_tag, h) ELSE NoReport
    /\ UNCHANGED <<sendVars, recvVars>>

\* a read returned no byte: nothing to read yet, end of stream, or the read
\* failed
SourceResult(res, h) ==
    /\ Live("recv_source") /\ stage[COMPONENT_SOURCE] = "ok"
    /\ res \in {"wouldblock", "eof"} => rxWire = <<>>
    /\ Len(ioLog) < MaxIo
    /\ ioLog' = Append(ioLog, [tag |-> COMPONENT_SOURCE, res |-> res])
    /\ IF IoFault(res) THEN Report(o.cfg.source_tag, h) ELSE NoReport
    /\ UNCHANGED <<sendVars, recvVars>>

(***************************************************************************)
(* The remote end in Spec: it reads what the sink wrote and writes raw     *)
(* frames, well-formed ones and headers that declare too long a payload.   *)
(***************************************************************************)
\* the traffic of a run of Spec
Traffic == Len(pushed) + Len(injected) + (IF oversize \/ rejected THEN 1 ELSE 0)

BadHeaders == {EncodeLen(n) : n \in (PACKETPROTO_MAXPAYLOAD + 1) .. (HeaderLimit - 1)}

GoodFrames(mtu) == {Encode(Zeros(n)) : n \in {m \in 0 .. MaxInjectLen : m <= mtu /\ m <= PACKETPROTO_MAXPAYLOAD}}

PeerWrite(f) ==
    /\ Established /\ o.sock = "live"
    /\ Traffic < MaxTraffic
    /\ f \in BadHeaders \cup GoodFrames(o.cfg.recv_copier_mtu)
    /\ rxWire' = rxWire \o f
    /\ injected' = Append(injected, f)
    /\ UNCHANGED <<rxAll, recvBuf, recvWant, delivered, sendVars, chanVars, stage, ioLog>>

PeerRead ==
    /\ Established /\ o.sock = "live"
    /\ txWire # <<>>
    /\ txWire' = <<>>
    /\ UNCHANGED <<pushed, rejected, oversize, sendPending, pushDone, bridge, txAll, recvVars, chanVars, stage, ioLog>>

\* the caller's pushes in Spec: the empty packet, and a packet one byte
\* longer than the send MTU
SpecPush(u) ==
    /\ Live("send_copier")
    /\ Traffic < MaxTraffic
    /\ \E n \in {0, o.send_mtu + 1} : n >= 0 /\ Push(Zeros(n), u)

Next ==
    \/ BIPC_InitConnect(SpecMtus)
    \/ BIPC_InitAccept(SpecMtus)
    \/ BIPC_Free
    \/ \E u \in UbOutcomes : SpecPush(u)
    \/ \E k \in 1 .. WireCap : SinkWrite(k)
    \/ BridgeJob
    \/ \E h \in HandlerChoices : SinkFault(h)
    \/ PeerRead
    \/ \E f \in BadHeaders \cup GoodFrames(PACKETPROTO_MAXPAYLOAD) : PeerWrite(f)
    \/ \E k \in 1 .. DecoderBufSize, h \in HandlerChoices : SourceRead(k, h)
    \/ \E h \in HandlerChoices : Pull(h)
    \/ \E h \in HandlerChoices : SourceFault(h)

Spec == Init /\ [][Next]_vars

(***************************************************************************)
(* SpecPair: a connected pair, both ends Established by init_io, no fault. *)
(* The send variables are those of the pushing end (send MTU o.send_mtu),  *)
(* the receive variables those of its peer (recv MTU o.recv_mtu).          *)
(***************************************************************************)
PairMtus == 0 .. PACKETPROTO_MAXPAYLOAD

InitPair ==
    /\ build \in {"debug", "ndebug"}
    /\ \E send_mtu \in PairMtus, recv_mtu \in PairMtus :
          /\ recv_mtu >= send_mtu
          /\ LET res == BIPC_InitConnect_(send_mtu, recv_mtu, "none")
             IN  /\ o = res.o
                 /\ initLog = Names(Inits(res.steps))
    /\ freeLog = <<>>
    /\ bridge = [IdleBridge EXCEPT !.state = "pulling"]
    /\ DataInit

\* the socket carries what the sink wrote to the peer's source
Transport ==
    /\ txWire # <<>>
    /\ rxWire' = rxWire \o txWire
    /\ txWire' = <<>>
    /\ UNCHANGED <<pushed, rejected, oversize, sendPending, pushDone, bridge, txAll, rxAll, injected, recvBuf, recvWant, delivered, chanVars, stage, ioLog>>

NextPair ==
    \/ \E p \in PacketsUpTo(o.send_mtu) : Len(pushed) < MaxPackets /\ Push(p, "taken")
    \/ \E k \in 1 .. WireCap : SinkWrite(k)
    \/ BridgeJob
    \/ Transport
    \/ \E k \in 1 .. DecoderBufSize : SourceRead(k, "return")
    \/ Pull("return")

(***************************************************************************)
(* SpecLife: construction with every argument and failing step, the        *)
(* interface getters in every phase, destruction by the caller or by the   *)
(* handler of a fault of the source; no traffic.                           *)
(***************************************************************************)
NextLife ==
    \/ BIPC_InitConnect(ArgValues)
    \/ BIPC_InitAccept(ArgValues)
    \/ BIPC_GetSendInterface
    \/ BIPC_GetRecvInterface
    \/ BIPC_Free
    \/ \E h \in HandlerChoices : SourceFault(h)

SpecLife == Init /\ [][NextLife]_vars

(***************************************************************************)
(* SpecIo: a connected pair carrying packets of the largest size, with     *)
(* every outcome of a read or a write: bytes moved, would-block, end of    *)
(* stream, error.                                                          *)
(***************************************************************************)
NextIo ==
    \/ Len(pushed) < MaxIoPackets /\ Push(Zeros(o.send_mtu), "taken")
    \/ \E k \in 1 .. WireCap : SinkWrite(k)
    \/ BridgeJob
    \/ Transport
    \/ \E k \in 1 .. DecoderBufSize : SourceRead(k, "return")
    \/ Pull("return")
    \/ \E res \in IoResults, h \in HandlerChoices : SinkResult(res, h)
    \/ \E res \in IoResults, h \in HandlerChoices : SourceResult(res, h)

SpecIo == InitPair /\ [][NextIo]_vars

SpecPair == InitPair /\ [][NextPair]_vars

\* SpecPair where the event loop runs the bridge's pending job, the socket
\* keeps becoming writable and readable and carries what was written, and
\* the receiving caller keeps pulling
PairFairness ==
    /\ WF_vars(\E k \in 1 .. WireCap : SinkWrite(k))
    /\ WF_vars(BridgeJob)
    /\ WF_vars(Transport)
    /\ WF_vars(\E k \in 1 .. DecoderBufSize : SourceRead(k, "return"))
    /\ WF_vars(Pull("return"))

\* the pushes of SpecPairLive: packets of every length up to the send MTU;
\* progress does not depend on the bytes a packet holds
NextPairLive ==
    \/ \E n \in 0 .. o.send_mtu : Len(pushed) < MaxLivePackets /\ Push(Zeros(n), "taken")
    \/ \E k \in 1 .. WireCap : SinkWrite(k)
    \/ BridgeJob
    \/ Transport
    \/ \E k \in 1 .. DecoderBufSize : SourceRead(k, "return")
    \/ Pull("return")

\* a connected pair whose two directions were built with the same MTU
InitPairLive == InitPair /\ o.recv_mtu = o.send_mtu

SpecPairLive == InitPairLive /\ [][NextPairLive]_vars /\ PairFairness

(***************************************************************************)
(* Properties.                                                             *)
(***************************************************************************)
\* the frame the bridge still holds bytes of, as the bytes not yet written
BridgeRest == IF bridge.state = "sending" THEN Drop(bridge.frame, bridge.off) ELSE <<>>

\* the packets whose push was signalled complete: all pushed ones but a pending one
Completed == IF sendPending = <<>> THEN pushed ELSE Take(pushed, Len(pushed) - 1)

\* every frame has left the send pipeline, crossed the socket and been decoded
AllFlushed == sendPending = <<>> /\ bridge.state # "sending" /\ txWire = <<>> /\ rxWire = <<>> /\ recvBuf = <<>>

\* C1: round trip, FIFO.  On a connected pair without fault, for every send
\* MTU from 0 to PACKETPROTO_MAXPAYLOAD and every sequence of packets no
\* longer than the send MTU, the packets delivered at the peer's receive
\* interface are at every moment a prefix of the packets pushed (same bytes,
\* same order), and are all of them once every frame is flushed and decoded.
C1_RoundTripFifo ==
    /\ \A i \in 1 .. Len(pushed) : Len(pushed[i]) <= o.send_mtu
    /\ handlerLog = <<>>
    /\ IsPrefix(delivered, pushed)
    /\ (AllFlushed => delivered = pushed)

\* two different packets of the largest size went through, in order
C1_Witness ==
    /\ o.send_mtu = PACKETPROTO_MAXPAYLOAD
    /\ Len(delivered) = MaxPackets
    /\ delivered = pushed
    /\ Len(delivered[1]) = PACKETPROTO_MAXPAYLOAD
    /\ delivered[1] # delivered[2]

\* C2: boundary preservation under fragmentation.  Whatever the sizes of
\* the sink's writes and of the source's reads, every byte the sink wrote is
\* in the socket or was read once; every byte read is part of exactly one
\* delivered frame or waits in the decoder's buffer, in order (a partly
\* received frame is continued, its header bytes are not read again); the
\* bytes written are the frames of the completed pushes, one frame per
\* packet; so the deliveries are one packet per frame, never two merged and
\* never one split.
C2_BoundaryPreservation ==
    /\ rxAll \o rxWire \o txWire = txAll
    /\ EncodeAll(delivered) \o recvBuf = rxAll
    /\ txAll \o BridgeRest = EncodeAll(Completed)
    /\ Len(delivered) <= pushDone
    /\ Len(recvBuf) <= DecoderBufSize

\* after one delivery, the next frame's header was split by a read, and the
\* frame before it was written in more than one piece
C2_Witness ==
    /\ Len(delivered) = 1
    /\ Len(recvBuf) = 1
    /\ Len(pushed) = 2
    /\ Len(pushed[2]) > 0
    /\ bridge.state = "sending" /\ bridge.off = HeaderSize + 1

Destroyed == o.phase \in {"freed", "ub"} \/ (o.phase = "aborted" /\ o.comp["recv_decoder"] = "freed")

DecoderCalls == Cardinality({i \in 1 .. Len(handlerLog) : handlerLog[i].tag = COMPONENT_DECODER})

IsBadHeader(f) == Len(f) = HeaderSize /\ DecodeLen(f) > PACKETPROTO_MAXPAYLOAD

\* the payloads of the frames the remote end wrote before its first header
\* with a length above the ceiling
RECURSIVE PayloadsBeforeBad(_)
PayloadsBeforeBad(fs) == IF fs = <<>> \/ IsBadHeader(Head(fs)) THEN <<>> ELSE <<Drop(Head(fs), HeaderSize)>> \o PayloadsBeforeBad(Tail(fs))

HasBad(fs) == \E i \in 1 .. Len(fs) : IsBadHeader(fs[i])

\* C4: malformed length.  Once the decoder has a header that declares more
\* than PACKETPROTO_MAXPAYLOAD at the head of its buffer it has failed for
\* good, its report has invoked the handler exactly once, and the packets
\* delivered are those of the frames before that header and no others,
\* whatever arrives afterwards; the decoder never causes a second
\* invocation.
C4_MalformedLength ==
    /\ DecoderCalls <= 1
    /\ IsPrefix(delivered, PayloadsBeforeBad(injected))
    /\ (HeadState(recvBuf) = "invalid" => DecoderCalls = 1 /\ stage[COMPONENT_DECODER] = "failed")
    /\ (stage[COMPONENT_DECODER] = "failed" => HeadState(recvBuf) = "invalid" /\ HasBad(injected))

\* the decoder failed on a header that followed a delivered frame, the
\* handler left the channel alive, and a further frame arrived
C4_Witness ==
    /\ HeadState(recvBuf) = "invalid"
    /\ DecoderCalls = 1
    /\ Len(injected) = 2 /\ IsBadHeader(injected[1]) /\ ~IsBadHeader(injected[2])
    /\ rxWire # <<>>
    /\ delivered = <<>>
    /\ Established

\* C5: reentrant teardown.  When the handler destroyed the channel before
\* returning, what runs after it touches no field of the channel (the flag
\* it reads is the local one DEAD_ENTER declared) and invokes no callback:
\* no handler invocation follows a destroying one, and no pipeline
\* component is left running.
C5_ReentrantTeardown ==
    /\ postAccess = {}
    /\ \A i \in 1 .. Len(handlerLog) :
          handlerLog[i].did = "free" => /\ i = Len(handlerLog)
                                        /\ Destroyed
                                        /\ \A c \in Components : o.comp[c] # "live"
                                        /\ (AssertsOn => o.dead = "frame")

\* with assertions compiled in, the decoder's report reached a handler that
\* destroyed the channel
C5_Witness ==
    /\ build = "debug"
    /\ Len(handlerLog) = 1
    /\ handlerLog[1] = [tag |-> COMPONENT_DECODER, did |-> "free"]
    /\ o.phase = "freed"

\* C6: construction failure leaves nothing allocated.  When a construction
\* call returned failure, by either path and at whichever step, the socket
\* and every pipeline component are either never initialised or released,
\* each initialisation was answered by one release, and the channel is not
\* Established: no DebugObject, no wiring, no pull started by the bridge.
C6_NothingAllocated ==
    o.phase = "failed" =>
        /\ o.sock \in {"uninit", "freed"}
        /\ \A c \in Components : o.comp[c] \in {"uninit", "freed"}
        /\ Len(initLog) = Len(freeLog)
        /\ {initLog[i] : i \in 1 .. Len(initLog)} = {freeLog[i] : i \in 1 .. Len(freeLog)}
        /\ o.d_obj = "uninit" /\ o.cfg = NoCfg /\ bridge = IdleBridge

\* the accepting path failed at the decoder, the last step that can fail:
\* everything before it was initialised and released
C6_Witness ==
    /\ o.phase = "failed" /\ o.path = "accept"
    /\ o.comp["send_buf"] = "freed" /\ o.comp["recv_copier"] = "freed" /\ o.comp["send_sink"] = "freed"
    /\ o.comp["recv_decoder"] = "uninit"
    /\ o.sock = "freed"

\* the call of the other construction path with the arguments of this one
OtherPath == IF o.path = "connect" THEN BIPC_InitAccept_(o.send_mtu, o.recv_mtu, "none").o ELSE BIPC_InitConnect_(o.send_mtu, o.recv_mtu, "none").o

\* the construction call stopped at the check of its arguments
ArgsRejected == o.phase = "aborted" /\ o.path # "none" /\ o.handler = "uninit"

\* C7: symmetry of the two construction paths.  Arguments one path rejects
\* the other rejects too, and an Established channel is, field for field
\* (components, wiring, MTUs), the channel the other path builds from the
\* same arguments; every later operation reads these fields only.
C7_Symmetry ==
    /\ (ArgsRejected => OtherPath.phase = "aborted")
    /\ (Established => [OtherPath EXCEPT !.path = o.path] = o)

\* C8: MTU ceiling.  Where the arguments are checked (assertions compiled
\* in), every Established channel has both MTUs between 0 and
\* PACKETPROTO_MAXPAYLOAD.
C8_MtuCeiling ==
    (AssertsOn /\ Established) =>
        /\ o.send_mtu >= 0 /\ o.send_mtu <= PACKETPROTO_MAXPAYLOAD
        /\ o.recv_mtu >= 0 /\ o.recv_mtu <= PACKETPROTO_MAXPAYLOAD

\* C9 as claimed: a push of a packet longer than the send MTU is rejected
\* in every build, and the bytes written to the socket are bytes of the
\* frames of packets within the MTU.
C9_AlwaysRejected ==
    /\ ~oversize
    /\ IsPrefix(txAll, EncodeAll(pushed))

\* C9, amended: with assertions compiled in, a push of a packet longer than
\* the channel's send MTU stops the program at the copier's check; no such
\* packet is taken, and the bytes written to the socket are bytes of the
\* frames of packets within the MTU.  A push is rejected in no other build.
C9_OversizeRejection ==
    /\ (rejected => AssertsOn /\ o.phase = "aborted")
    /\ (AssertsOn => /\ ~oversize
                     /\ \A i \in 1 .. Len(pushed) : Len(pushed[i]) <= o.send_mtu
                     /\ IsPrefix(txAll, EncodeAll(pushed)))

\* a packet went out to the socket, then a longer one was rejected
C9_Witness ==
    /\ rejected
    /\ Len(pushed) = 1
    /\ txAll = EncodeAll(pushed)

\* C10 as claimed: a getter returns when and only when the channel is
\* Established; every other call is detected.
C10_OnlyEstablished ==
    getLog # NoCall => (getLog.result = "returned" <=> getLog.phase = "established")

\* the moves of the lifecycle where the object's debug check exists
PhaseSteps == {<<"none", "established">>, <<"none", "failed">>, <<"none", "aborted">>, <<"established", "freed">>, <<"established", "aborted">>, <<"failed", "aborted">>, <<"freed", "aborted">>}

GetterWindow ==
    /\ (getLog # NoCall /\ getLog.phase = "established") => (getLog.result = "returned" /\ getLog.copier = "live")
    /\ (AssertsOn /\ getLog # NoCall /\ getLog.phase = "freed") => getLog.result = "abort"
    /\ (AssertsOn => \A i, j \in 1 .. Len(freeLog) : i # j => freeLog[i] # freeLog[j])

\* C10, amended: a getter called on an Established channel returns the
\* interface of a live copier.  With assertions compiled in, a getter called
\* after destruction is detected and stops the program, the phase moves only
\* none -> established -> freed (or to failed, or to a stop), and nothing is
\* released twice.  A call before construction or after a failed one reads
\* a DebugObject that was never initialised, and no call is detected where
\* assertions are compiled out.
C10_ValidityWindow == [](GetterWindow) /\ [][AssertsOn /\ o'.phase # o.phase => <<o.phase, o'.phase>> \in PhaseSteps]_vars

\* with assertions compiled in, a getter called after BIPC_Free was stopped
C10_Witness ==
    /\ build = "debug"
    /\ getLog # NoCall /\ getLog.phase = "freed" /\ getLog.result = "abort"
    /\ o.phase = "aborted"
    /\ Len(freeLog) = Cardinality(Components) + 1

\* C11: bounded send memory and backpressure.  The bridge holds at most one
\* frame, no longer than the size init_io gave the stream sender; a push is
\* signalled complete only when the bridge took its frame, so at most one
\* push waits at the copier, and it waits only while the bridge is busy;
\* the bytes of completed pushes not yet written to the socket never
\* exceed one frame, however slowly the socket takes them.
C11_BoundedSendMemory ==
    /\ Len(sendPending) <= 1
    /\ Len(pushed) = pushDone + Len(sendPending)
    /\ (sendPending # <<>> => bridge.state \in {"sending", "job"})
    /\ (bridge.state # "sending" => bridge.frame = <<>>)
    /\ Len(bridge.frame) <= o.cfg.pss_mtu
    /\ Len(EncodeAll(Completed)) - Len(txAll) <= o.cfg.pss_mtu

\* the socket is full, the bridge holds a frame of the largest size partly
\* written, and the caller's next push waits at the copier
C11_Witness ==
    /\ Len(txWire) = WireCap
    /\ bridge.state = "sending" /\ bridge.off > 0
    /\ Len(bridge.frame) = PACKETPROTO_ENCLEN(PACKETPROTO_MAXPAYLOAD)
    /\ sendPending # <<>>
    /\ pushDone = 1

Reverse(s) == [i \in 1 .. Len(s) |-> s[Len(s) + 1 - i]]

\* what is still held after the first n releases of the log
HeldAfter(n) == {initLog[i] : i \in 1 .. Len(initLog)} \ {freeLog[i] : i \in 1 .. n}

RecvPipeline == {"recv_source", "recv_copier", "recv_decoder"}

SendPipeline == {"send_sink", "send_pss", "send_copier", "send_encoder", "send_buf"}

\* C12: teardown order.  After Destroy the releases are the
\* initialisations in exactly the reverse order: decoder, receive copier,
\* stream source, single-packet buffer, encoder, send copier, stream sender,
\* socket sink, then the socket; the receive pipeline is gone before the
\* first component of the send pipeline, and at every point what is still
\* held is an initial part of what init_io built, so nothing is released
\* while something built after it is held.
C12_TeardownOrder ==
    o.phase = "freed" =>
        /\ freeLog = Reverse(initLog)
        /\ freeLog = <<"recv_decoder", "recv_copier", "recv_source", "send_buf", "send_encoder", "send_copier", "send_pss", "send_sink", "sock">>
        /\ \A i, j \in 1 .. Len(freeLog) : (freeLog[i] \in RecvPipeline /\ freeLog[j] \in SendPipeline) => i < j
        /\ \A n \in 0 .. Len(freeLog) : HeldAfter(n) = {initLog[i] : i \in 1 .. Len(initLog) - n}

\* a channel built by the accepting path was destroyed by the handler of a
\* fault of the source
C12_Witness ==
    /\ o.phase = "freed" /\ o.path = "accept"
    /\ Len(handlerLog) = 1 /\ handlerLog[1].did = "free"
    /\ Len(freeLog) = Cardinality(Components) + 1

\* C13 as claimed: the flag is set at the start of destruction, before any
\* component or the socket is released: when DEAD_KILL ran, Destroy had
\* released nothing yet.
C13_FlagFirst ==
    o.phase = "freed" => (o.kill.ran /\ o.kill.after = <<>>)

\* C13, amended: DEAD_KILL is the last statement of BIPC_Free; when it runs,
\* every pipeline component and the socket have been released.  It sets a
\* flag only when the destruction runs inside error_handler's guarded
\* region, which exists with assertions compiled in; nothing of the channel
\* runs between the first release and DEAD_KILL.
C13_FlagLast ==
    o.phase = "freed" =>
        /\ o.kill.ran
        /\ o.kill.after = freeLog
        /\ {o.kill.after[i] : i \in 1 .. Len(o.kill.after)} = Components \cup {"sock"}
        /\ (o.kill.flag <=> (AssertsOn /\ handlerLog # <<>> /\ handlerLog[Len(handlerLog)].did = "free"))
        /\ postAccess = {}

\* the handler destroyed the channel inside the guarded region: the flag was
\* set, after the nine releases
C13_Witness ==
    /\ o.phase = "freed"
    /\ o.kill.flag
    /\ Len(o.kill.after) = Cardinality(Components) + 1
    /\ o.dead = "frame"

\* what the caller can see of one call of error_handler: how often its
\* handler ran and what it did, the channel afterwards, the releases
Visible(res) == [calls |-> [i \in 1 .. Len(res.called) |-> res.called[i].did], o |-> res.o, steps |-> res.steps, touched |-> res.touched]

\* C14: fault-tag independence.  On an Established channel a report with
\* any of the three tags has the same effect: the handler runs once, it is
\* given nothing that depends on the tag, and the channel afterwards, the
\* releases performed and the fields touched are the same for every tag.
C14_TagIndependence ==
    Established =>
        \A h \in HandlerChoices :
            /\ \A t \in Tags : Len(error_handler(o, t, h).called) = 1
            /\ \A t1, t2 \in Tags : Visible(error_handler(o, t1, h)) = Visible(error_handler(o, t2, h))

\* with assertions compiled in, a fault of the sink while a frame was being
\* written reached a handler that destroyed the channel
C14_Witness ==
    /\ build = "debug"
    /\ Len(handlerLog) = 1
    /\ handlerLog[1] = [tag |-> COMPONENT_SINK, did |-> "free"]
    /\ txAll # <<>>
    /\ o.phase = "freed"

\* the bridge takes a frame from the encoder
TakesFrame == pushDone' # pushDone

\* the sender accepted the last byte of the bridge's frame
FrameCompletes == bridge.state = "sending" /\ txAll' # txAll /\ Len(BridgeRest) = Len(txAll') - Len(txAll)

BridgeStep ==
    /\ TakesFrame => /\ bridge.state \in {"pulling", "job"}
                     /\ bridge.frame = <<>>
                     /\ txAll = EncodeAll(Take(pushed, pushDone))
                     /\ txAll' = txAll
                     /\ pushDone' = pushDone + 1
                     /\ bridge'.state = "sending" /\ bridge'.off = 0
    /\ FrameCompletes => /\ ~TakesFrame
                         /\ sendPending' = sendPending
                         /\ bridge' = [state |-> "job", frame |-> <<>>, off |-> 0]
    /\ (bridge'.state = "pulling" /\ bridge.state # "pulling") => bridge.state = "job"

\* C15: stream bridge sequencing.  The bridge takes a frame from the
\* encoder only when it holds none and every byte of the frames it took
\* before has been written by the sender; the step in which the sender
\* accepts the last byte of a frame takes no frame and leaves the waiting
\* push where it is: it only schedules the job, and the job, a step of its
\* own, performs the next pull.
C15_BridgeSequencing == [][BridgeStep]_vars

\* a frame was written to its last byte while the next push waits: the job
\* is scheduled and has not yet pulled
C15_Witness ==
    /\ bridge.state = "job"
    /\ sendPending # <<>>
    /\ pushDone = 1
    /\ txAll = EncodeAll(Take(pushed, 1))

\* the stages whose result was something else than a would-block, in order
FaultTags == LET f == SelectSeq(ioLog, LAMBDA e : e.res # "wouldblock") IN [i \in 1 .. Len(f) |-> f[i].tag]

HandlerTags == [i \in 1 .. Len(handlerLog) |-> handlerLog[i].tag]

LastIo == ioLog'[Len(ioLog')]

IoStep ==
    ioLog' # ioLog =>
        IF LastIo.res = "wouldblock"
        THEN UNCHANGED <<chanVars, sendVars, recvVars, stage>>
        ELSE /\ handlerLog' = Append(handlerLog, handlerLog'[Len(handlerLog')])
             /\ handlerLog'[Len(handlerLog')].tag = LastIo.tag
             /\ stage' = [stage EXCEPT ![LastIo.tag] = "failed"]
             /\ (AssertsOn => o'.phase \in {"freed", "aborted"})
             /\ UNCHANGED <<sendVars, recvVars>>

\* C16: transport read and write outcomes.  A would-block result of a read
\* or a write calls no handler and changes nothing: the frame being written,
\* the bytes in the socket and the decoder's buffer stay as they are and the
\* stage runs on.  An end of stream on the read side and an error on either
\* side stop the stage and reach the handler, once each and with the tag of
\* the stage, and nothing else does.
C16_IoOutcomes == [](HandlerTags = FaultTags) /\ [][IoStep]_vars

\* a write found the socket full while a frame was partly written; later
\* the read side saw the end of the stream and the handler destroyed the
\* channel
C16_Witness ==
    /\ Len(ioLog) = 2
    /\ ioLog[1] = [tag |-> COMPONENT_SINK, res |-> "wouldblock"]
    /\ ioLog[2] = [tag |-> COMPONENT_SOURCE, res |-> "eof"]
    /\ Len(handlerLog) = 1 /\ handlerLog[1].did = "free"
    /\ txAll # <<>>
    /\ o.phase = "freed"

Count(log, x) == Cardinality({i \in 1 .. Len(log) : log[i] = x})

Resources == Components \cup {"sock"}

StateOf(x) == IF x = "sock" THEN o.sock ELSE o.comp[x]

\* C18: exactly-once release.  After a construction that failed at any
\* step, and after a construction that succeeded followed by one Destroy,
\* every component and the socket was released once if it was initialised
\* and never if it was not; before that, on an Established channel, nothing
\* was released; no release ever met a component that was not held.
C18_ExactlyOnce ==
    /\ o.phase \in {"failed", "freed"} =>
          \A x \in Resources : /\ Count(initLog, x) <= 1
                               /\ Count(freeLog, x) = Count(initLog, x)
                               /\ StateOf(x) = (IF Count(initLog, x) = 1 THEN "freed" ELSE "uninit")
    /\ o.phase = "established" =>
          \A x \in Resources : Count(initLog, x) = 1 /\ Count(freeLog, x) = 0 /\ StateOf(x) = "live"
    /\ o.phase \in {"none", "failed", "established", "freed"} => \A x \in Resources : StateOf(x) # "bad"

\* the connecting path failed at the send buffer: the four components built
\* before it and the socket were released, the buffer and the receive
\* pipeline never built and never released
C18_Witness ==
    /\ o.phase = "failed" /\ o.path = "connect"
    /\ o.comp["send_buf"] = "uninit" /\ o.comp["recv_source"] = "uninit"
    /\ o.comp["send_encoder"] = "freed"
    /\ Len(freeLog) = 5

\* packet i was pushed / its push was signalled complete, every byte of its
\* frame was written to the socket, and it was delivered at the peer
Accepted(i) == Len(pushed) >= i

Through(i) ==
    /\ pushDone >= i
    /\ Len(txAll) >= Len(EncodeAll(Take(pushed, i)))
    /\ Len(delivered) >= i /\ delivered[i] = pushed[i]

\* C19: progress.  On a connected pair without fault and without
\* destruction, where the event loop runs, the socket keeps taking and
\* giving bytes and the receiving caller keeps pulling, every packet the
\* send interface accepted is eventually written to the socket to its last
\* byte, its push is eventually signalled complete, and the packet is
\* eventually delivered at the peer's receive interface.
C19_Progress == \A i \in 1 .. MaxLivePackets : Accepted(i) ~> Through(i)

\* every push was completed, flushed and delivered; the bridge and the
\* receiving caller wait for the next packet
C19_Witness ==
    /\ Len(pushed) = MaxLivePackets
    /\ Through(MaxLivePackets)
    /\ Len(pushed[1]) = PACKETPROTO_MAXPAYLOAD
    /\ AllFlushed
    /\ bridge.state = "pulling"
    /\ recvWant

====
